---- MODULE Spec2Model ----
(***************************************************************************)
(* Model of the listing validator (src/test_validate.py): the title rule   *)
(* set, the description rule set over the parsed markup, the brand lookup  *)
(* and the batch driver main().                                            *)
(*                                                                         *)
(* A Python str is a sequence of Unicode code points (integers).  A        *)
(* description is a sequence of markup lexemes (start tags, end tags, text *)
(* chunks), each with its raw character length.  Python's None is NoneStr  *)
(* for a str-or-None value and NoneHtml for a description-or-None value.   *)
(***************************************************************************)
EXTENDS Integers, Sequences, FiniteSets, TLC

VARIABLES
    pc,          \* position of main(): "start", "loop", "write", "done", "crashed"
    args,        \* parsed command line: [output, products]
    input_json,  \* what json.loads(input file) yields: [kind, rows]
    locals,      \* names of main()'s block-assigned locals that are bound
    brand_map,   \* local brand_map
    raw,         \* local raw
    validated,   \* local validated
    idx,         \* number of rows of raw the for loop has consumed
    out_file,    \* what out_path holds: [written, rows]
    error        \* the exception that ended main(), "" when none

vars == <<pc, args, input_json, locals, brand_map, raw, validated, idx, out_file, error>>

(***************************************************************************)
(* Bounds of the model.                                                    *)
(***************************************************************************)
MaxBatch == 3
MaxPieces == 3
MaxChunks == 2

(***************************************************************************)
(* Python values.                                                          *)
(***************************************************************************)
NoneStr == <<-1>>
NoneHtml == <<"None">>

\* bool(s) for a str-or-None value
Truthy(s) == s # NoneStr /\ s # <<>>

\* bool(h) for a description-or-None value
TruthyHtml(h) == h # NoneHtml /\ h # <<>>

\* x or "" (str-or-None)
OrEmpty(s) == IF Truthy(s) THEN s ELSE <<>>

\* x or "" (description-or-None)
OrEmptyHtml(h) == IF TruthyHtml(h) THEN h ELSE <<>>

\* a check outcome: True, False, "not_evaluated"
Outcome(b) == IF b THEN "true" ELSE "false"

NOT_EVALUATED == "not_evaluated"

(***************************************************************************)
(* Characters: str.isspace / \s, str.isalpha, str.isupper, str.lower on    *)
(* the code points the inputs are drawn from (ASCII and the emoji blocks). *)
(***************************************************************************)
IsSpace(c) == c \in ((9..13) \cup (28..32) \cup {133, 160})

IsUpper(c) == c \in 65..90

IsLowerLetter(c) == c \in 97..122

IsAlpha(c) == IsUpper(c) \/ IsLowerLetter(c)

LowerChar(c) == IF IsUpper(c) THEN c + 32 ELSE c

Lower(s) == [k \in 1..Len(s) |-> LowerChar(s[k])]

RECURSIVE LStrip(_)
LStrip(s) == IF s # <<>> /\ IsSpace(Head(s)) THEN LStrip(Tail(s)) ELSE s

RECURSIVE RStrip(_)
RStrip(s) ==
    IF s # <<>> /\ IsSpace(s[Len(s)]) THEN RStrip(SubSeq(s, 1, Len(s) - 1)) ELSE s

Strip(s) == RStrip(LStrip(s))

\* sub in s
Contains(s, sub) ==
    \E k \in 1..(Len(s) - Len(sub) + 1) : SubSeq(s, k, k + Len(sub) - 1) = sub

StartsWith(s, prefix) ==
    Len(prefix) <= Len(s) /\ SubSeq(s, 1, Len(prefix)) = prefix

\* s.find(sub): the 0-based index of the first occurrence, -1 when none
Find(s, sub) ==
    LET hits == {k \in 1..(Len(s) - Len(sub) + 1) : SubSeq(s, k, k + Len(sub) - 1) = sub}
    IN  IF hits = {} THEN -1
        ELSE (CHOOSE k \in hits : \A m \in hits : k <= m) - 1

(***************************************************************************)
(* EMOJI_RE: one character in any of the listed ranges.                    *)
(***************************************************************************)
EmojiRanges ==
    { <<127744, 128511>>, <<128512, 128591>>, <<128640, 128767>>,
      <<128768, 128895>>, <<128896, 129023>>, <<129024, 129279>>,
      <<129280, 129535>>, <<129536, 129791>>, <<9728, 10175>> }

IsEmoji(c) == \E r \in EmojiRanges : r[1] <= c /\ c <= r[2]

EMOJI_RE_search(s) == \E k \in 1..Len(s) : IsEmoji(s[k])

(***************************************************************************)
(* SPAM_RE, compiled with IGNORECASE.  An alternative is a sequence of     *)
(* elements: c > 0 the literal character c, 0 the element \s*, c < 0 the   *)
(* optional character -c.                                                  *)
(***************************************************************************)
SpamAlternatives ==
    { <<102, 114, 101, 101>>,                                  \* FREE
      <<98, 101, 115, 116, 0, 100, 101, 97, 108>>,             \* BEST\s*DEAL
      <<116, 111, 112, 0, 114, 97, 116, 101, 100>>,            \* TOP\s*RATED
      <<49, 48, 48, 37>>,                                      \* 100%
      <<103, 117, 97, 114, 97, 110, 116, 101, 101, 100>>,      \* GUARANTEED
      <<99, 108, 105, 99, 107>>,                               \* CLICK
      <<115, 97, 108, 101, -33>>,                              \* SALE!?
      <<99, 104, 101, 97, 112>>,                               \* CHEAP
      <<104, 111, 116, 0, 100, 101, 97, 108>>,                 \* HOT\s*DEAL
      <<100, 111, 110, -39, 116, 0, 109, 105, 115, 115>> }     \* DON'?T\s*MISS

\* whether elements j.. of pat match s from position i on
RECURSIVE MatchAt(_, _, _, _)
MatchAt(s, i, pat, j) ==
    IF j > Len(pat) THEN TRUE
    ELSE IF pat[j] > 0
        THEN i <= Len(s) /\ LowerChar(s[i]) = pat[j] /\ MatchAt(s, i + 1, pat, j + 1)
    ELSE IF pat[j] < 0
        THEN \/ i <= Len(s) /\ LowerChar(s[i]) = -pat[j] /\ MatchAt(s, i + 1, pat, j + 1)
             \/ MatchAt(s, i, pat, j + 1)
    ELSE \/ MatchAt(s, i, pat, j + 1)
         \/ i <= Len(s) /\ IsSpace(s[i]) /\ MatchAt(s, i + 1, pat, j)

SPAM_RE_search(s) ==
    \E i \in 1..Len(s) : \E pat \in SpamAlternatives : MatchAt(s, i, pat, 1)

(***************************************************************************)
(* is_all_caps                                                             *)
(***************************************************************************)
is_all_caps(s) ==
    LET letters == {k \in 1..Len(s) : IsAlpha(s[k])}
        upper == Cardinality({k \in letters : IsUpper(s[k])})
    IN  IF letters = {} THEN FALSE
        ELSE upper * 10 >= 9 * Cardinality(letters)

(***************************************************************************)
(* validate_title                                                          *)
(***************************************************************************)
TitleCheckKeys ==
    << "present", "length_le_80", "length_ge_10", "one_line", "no_double_spaces",
       "no_emoji", "no_spam_words", "not_all_caps", "starts_with_brand" >>

\* the checks dict as first built: every rule False, the brand rule not evaluated
TitleChecksInitial(title) ==
    [k \in {TitleCheckKeys[n] : n \in 1..Len(TitleCheckKeys)} |->
        IF k = "present" THEN Outcome(Truthy(title))
        ELSE IF k = "starts_with_brand" THEN NOT_EVALUATED
        ELSE "false"]

\* the brand rule: the title starts with the brand or holds it early
BrandCheck(t, brand) ==
    LET tb == LStrip(Lower(t))
        br == Strip(Lower(brand))
        starts == StartsWith(tb, br)
        early == Find(tb, br) # -1 /\ Find(tb, br) <= 12
    IN  starts \/ early

\* a length check that rejects a title of exactly 80 characters
LengthLe80_Exclusive(t) == Len(t) < 80

\* len(t) <= 80
LengthLe80(t) == Len(t) <= 80

TitleChecks(t, brand) ==
    [TitleChecksInitial(t) EXCEPT
        !["length_le_80"] = Outcome(LengthLe80(t)),
        !["length_ge_10"] = Outcome(Len(Strip(t)) >= 10),
        !["one_line"] = Outcome(~Contains(t, <<10>>) /\ ~Contains(t, <<13>>)),
        !["no_double_spaces"] = Outcome(~Contains(t, <<32, 32>>)),
        !["no_emoji"] = Outcome(~EMOJI_RE_search(t)),
        !["no_spam_words"] = Outcome(~SPAM_RE_search(t)),
        !["not_all_caps"] = Outcome(~is_all_caps(t)),
        !["starts_with_brand"] =
            IF Truthy(brand) THEN Outcome(BrandCheck(t, brand)) ELSE NOT_EVALUATED]

\* a violations list that outlives the call: it still holds what the
\* previous title validation put in it
NewList_Shared ==
    IF validated = <<>> THEN <<>> ELSE validated[Len(validated)].title.violations

\* violations = []: a new, empty list in every call
NewList == <<>>

\* collecting every check that is not True, not_evaluated included
CollectViolations_NotTrue(keys, checks) ==
    NewList \o SelectSeq(keys, LAMBDA k : checks[k] # "true")

\* the keys of checks whose value is False, in the dict's order
CollectViolations(keys, checks) ==
    NewList \o SelectSeq(keys, LAMBDA k : checks[k] = "false")

\* a pass that not_evaluated blocks
TitleOk_Strict(checks) == \A k \in DOMAIN checks : checks[k] = "true"

\* all(v is True or v == "not_evaluated" for v in checks.values())
TitleOk(checks) ==
    \A k \in DOMAIN checks : checks[k] = "true" \/ checks[k] = NOT_EVALUATED

\* validate_title without the early return for a missing title
validate_title_NoEarlyReturn(title, brand) ==
    LET checks == [TitleChecks(title, brand) EXCEPT !["present"] = Outcome(Truthy(title))]
    IN  [pass |-> TitleOk(checks), checks |-> checks,
         violations |-> CollectViolations(TitleCheckKeys, checks)]

validate_title(title, brand) ==
    IF ~Truthy(title)
    THEN [pass |-> FALSE, checks |-> TitleChecksInitial(title),
          violations |-> <<"missing_title">>]
    ELSE LET checks == TitleChecks(title, brand)
         IN  [pass |-> TitleOk(checks), checks |-> checks,
              violations |-> CollectViolations(TitleCheckKeys, checks)]

(***************************************************************************)
(* Markup lexemes.  A description is a sequence of lexemes: a start tag,   *)
(* an end tag or a text chunk.  A word chunk holds no whitespace; " " is a *)
(* whitespace chunk.                                                       *)
(***************************************************************************)
StartLexemes == {"<p>", "<li>", "<ul>", "<body>", "<script>", "<SCRIPT>", "<iframe>"}

EndLexemes == {"</p>", "</li>", "</ul>", "</script>"}

\* the tag name the parser reports for a tag lexeme (html.parser lower-cases it)
TagName(lex) ==
    CASE lex \in {"<p>", "</p>"} -> "p"
      [] lex \in {"<li>", "</li>"} -> "li"
      [] lex \in {"<ul>", "</ul>"} -> "ul"
      [] lex = "<body>" -> "body"
      [] lex \in {"<script>", "<SCRIPT>", "</script>"} -> "script"
      [] lex = "<iframe>" -> "iframe"

\* len() of a lexeme
RawLen(lex) ==
    CASE lex \in {"<p>"} -> 3
      [] lex \in {"</p>", "<li>", "<ul>"} -> 4
      [] lex \in {"</li>", "</ul>"} -> 5
      [] lex = "<body>" -> 6
      [] lex \in {"<script>", "<SCRIPT>", "<iframe>"} -> 8
      [] lex = "</script>" -> 9
      [] lex = " " -> 1
      [] lex = "w5" -> 5
      [] lex = "w40" -> 40
      [] lex = "w4000" -> 4000
      [] lex = "http://x.co" -> 11

IsWsLexeme(lex) == lex = " "

\* name.lower() of a tag name
LowerName(name) == IF name = "SCRIPT" THEN "script" ELSE name

\* the tag names of the model in sorted() order
SortedNames == <<"body", "iframe", "li", "p", "script", "ul">>

\* sorted(names)
Sorted(names) == SelectSeq(SortedNames, LAMBDA n : n \in names)

RECURSIVE HtmlLen(_)
HtmlLen(h) == IF h = <<>> THEN 0 ELSE RawLen(Head(h)) + HtmlLen(Tail(h))

RECURSIVE HtmlLStrip(_)
HtmlLStrip(h) == IF h # <<>> /\ IsWsLexeme(Head(h)) THEN HtmlLStrip(Tail(h)) ELSE h

RECURSIVE HtmlRStrip(_)
HtmlRStrip(h) ==
    IF h # <<>> /\ IsWsLexeme(h[Len(h)]) THEN HtmlRStrip(SubSeq(h, 1, Len(h) - 1)) ELSE h

\* html.strip()
HtmlStrip(h) == HtmlRStrip(HtmlLStrip(h))

\* len(normalize_whitespace(text)) of a text given as chunks: the words'
\* lengths plus one space for every whitespace run between two words
RECURSIVE NormLenFrom(_, _, _, _)
NormLenFrom(text, i, seenWord, pendingWs) ==
    IF i > Len(text) THEN 0
    ELSE IF IsWsLexeme(text[i]) THEN NormLenFrom(text, i + 1, seenWord, TRUE)
    ELSE (IF seenWord /\ pendingWs THEN 1 ELSE 0) + RawLen(text[i])
         + NormLenFrom(text, i + 1, TRUE, FALSE)

normalize_whitespace_len(text) == NormLenFrom(text, 1, FALSE, FALSE)

(***************************************************************************)
(* BeautifulSoup(h, "html.parser"): the tree builder, as far as find_all   *)
(* and find("p").get_text(" ") read it.  A start tag opens an element; an  *)
(* end tag closes the most recent open element of its name and all those   *)
(* inside it, and is ignored when none is open; the content of a script    *)
(* element is raw text up to its end tag.                                  *)
(*   tags    the names of all tags, in document order                      *)
(*   stack   the open elements                                             *)
(*   cdata   the element whose raw text is being read, "" when none        *)
(*   p       0 no p yet, 1 the first p is open, 2 the first p is closed    *)
(*   p_depth the first p's position in stack                               *)
(*   p_text  the strings under the first p, joined by " "                  *)
(***************************************************************************)
CDATA_CONTENT_ELEMENTS == {"script", "style"}

SoupInitial ==
    [tags |-> <<>>, stack |-> <<>>, cdata |-> "", p |-> 0, p_depth |-> 0, p_text |-> <<>>]

InP(st, text) == IF st.p = 1 THEN Append(st.p_text, text) ELSE st.p_text

handle_starttag(st, name) ==
    [st EXCEPT
        !.tags = Append(@, name),
        !.stack = Append(@, name),
        !.cdata = IF name \in CDATA_CONTENT_ELEMENTS THEN name ELSE "",
        !.p = IF st.p = 0 /\ name = "p" THEN 1 ELSE @,
        !.p_depth = IF st.p = 0 /\ name = "p" THEN Len(st.stack) + 1 ELSE @,
        !.p_text = InP(st, " ")]

handle_endtag(st, name) ==
    LET open == {k \in 1..Len(st.stack) : st.stack[k] = name}
        pos == CHOOSE k \in open : \A m \in open : m <= k
    IN  IF open = {} THEN [st EXCEPT !.cdata = "", !.p_text = InP(st, " ")]
        ELSE [st EXCEPT
                !.cdata = "",
                !.stack = SubSeq(@, 1, pos - 1),
                !.p = IF st.p = 1 /\ pos <= st.p_depth THEN 2 ELSE @,
                !.p_text = InP(st, " ")]

handle_data(st, lex) == [st EXCEPT !.p_text = InP(st, lex)]

feed(st, lex) ==
    IF st.cdata # ""
    THEN IF lex \in EndLexemes /\ TagName(lex) = st.cdata
         THEN handle_endtag(st, TagName(lex))
         ELSE st
    ELSE IF lex \in StartLexemes THEN handle_starttag(st, TagName(lex))
    ELSE IF lex \in EndLexemes THEN handle_endtag(st, TagName(lex))
    ELSE handle_data(st, lex)

RECURSIVE FeedAll(_, _)
FeedAll(st, h) == IF h = <<>> THEN st ELSE FeedAll(feed(st, Head(h)), Tail(h))

BeautifulSoup(h) == FeedAll(SoupInitial, h)

\* [tag.name for tag in soup.find_all()]
get_all_tags(soup) == soup.tags

TagSet(soup) == {soup.tags[k] : k \in 1..Len(soup.tags)}

(***************************************************************************)
(* The markup inspections and validate_description.                        *)
(***************************************************************************)
DISALLOWED_TAGS ==
    { "script", "iframe", "object", "embed", "applet", "form", "input", "button",
      "video", "audio", "canvas", "svg", "style", "link", "meta" }

\* an allow-list that also holds the lead-paragraph tag
ALLOWED_TAGS_WithP ==
    { "p", "b", "strong", "br", "ol", "ul", "li", "table", "tr", "td", "th", "thead",
      "tbody", "tfoot", "caption", "colgroup", "col" }

ALLOWED_TAGS ==
    { "b", "strong", "br", "ol", "ul", "li", "table", "tr", "td", "th", "thead",
      "tbody", "tfoot", "caption", "colgroup", "col" }

NEUTRAL_TAGS == {"html", "body"}

count_bullets(soup) == Len(SelectSeq(soup.tags, LAMBDA n : n = "li"))

first_paragraph_len(soup) ==
    IF soup.p = 0 THEN 0 ELSE normalize_whitespace_len(soup.p_text)

\* looking at the first tag only (find in place of find_all)
has_disallowed_tags_FirstOnly(soup) ==
    IF soup.tags # <<>> /\ LowerName(Head(soup.tags)) \in DISALLOWED_TAGS
    THEN <<LowerName(Head(soup.tags))>> ELSE <<>>

has_disallowed_tags(soup) ==
    Sorted({LowerName(n) : n \in {m \in TagSet(soup) : LowerName(m) \in DISALLOWED_TAGS}})

only_allowed_tags(soup) ==
    Sorted({LowerName(n) : n \in {m \in TagSet(soup) :
                /\ LowerName(m) \notin NEUTRAL_TAGS
                /\ LowerName(m) \notin ALLOWED_TAGS}})

\* the http(s):// pattern or the e-mail pattern matches the raw text
contains_external_links(h) == \E k \in 1..Len(h) : h[k] = "http://x.co"

DescCheckKeys ==
    << "present", "length_40_to_4000", "lead_paragraph_ok", "bullet_count_3_to_8",
       "no_disallowed_tags", "only_allowed_tags", "no_external_links" >>

DescChecksInitial(html) ==
    [k \in {DescCheckKeys[n] : n \in 1..Len(DescCheckKeys)} |->
        IF k = "present" THEN Outcome(TruthyHtml(html)) ELSE "false"]

DescChecks(html, h, soup) ==
    [DescChecksInitial(html) EXCEPT
        !["length_40_to_4000"] = Outcome(40 <= HtmlLen(h) /\ HtmlLen(h) <= 4000),
        !["lead_paragraph_ok"] = Outcome(first_paragraph_len(soup) >= 40),
        !["bullet_count_3_to_8"] = Outcome(3 <= count_bullets(soup) /\ count_bullets(soup) <= 8),
        !["no_disallowed_tags"] = Outcome(Len(has_disallowed_tags(soup)) = 0),
        !["only_allowed_tags"] = Outcome(Len(only_allowed_tags(soup)) = 0),
        !["no_external_links"] = Outcome(~contains_external_links(h))]

\* any in place of all
DescOk_Any(checks) == \E k \in DOMAIN checks : checks[k] = "true"

\* all(v is True for v in checks.values())
DescOk(checks) == \A k \in DOMAIN checks : checks[k] = "true"

validate_description(html) ==
    IF ~TruthyHtml(html)
    THEN [pass |-> FALSE, checks |-> DescChecksInitial(html),
          violations |-> <<"missing_description">>]
    ELSE LET h == HtmlStrip(html)
             soup == BeautifulSoup(h)
             checks == DescChecks(html, h, soup)
         IN  [pass |-> DescOk(checks), checks |-> checks,
              violations |-> CollectViolations(DescCheckKeys, checks),
              found_disallowed_tags |-> has_disallowed_tags(soup),
              found_non_whitelisted_tags |-> only_allowed_tags(soup),
              lead_paragraph_length |-> first_paragraph_len(soup),
              bullet_count |-> count_bullets(soup)]

(***************************************************************************)
(* load_brand_map.  A products file is absent ("none"), a JSON object with *)
(* an "items" list ("dict_items"), a JSON list ("list") or any other JSON  *)
(* value ("other").  An item's fields are str or None; identifiers and     *)
(* brands are str, which str() leaves as they are.                         *)
(***************************************************************************)
\* a or b
Or(a, b) == IF Truthy(a) THEN a ELSE b

\* mapping after mapping[key] = value
SetItem(mapping, key, value) ==
    [k \in DOMAIN mapping \cup {key} |-> IF k = key THEN value ELSE mapping[k]]

RECURSIVE BrandMapOf(_, _)
BrandMapOf(items, mapping) ==
    IF items = <<>> THEN mapping
    ELSE LET it == Head(items)
             id == Or(Or(it.id, it.sku), it.handle)
             brand == Or(it.brand, it.vendor)
         IN  BrandMapOf(Tail(items),
                        IF Truthy(id) /\ Truthy(brand)
                        THEN SetItem(mapping, id, brand) ELSE mapping)

load_brand_map(products) ==
    IF products.kind \in {"dict_items", "list"}
    THEN BrandMapOf(products.items, <<>>)
    ELSE <<>>

\* mapping.get(key)
Get(mapping, key) == IF key \in DOMAIN mapping THEN mapping[key] ELSE NoneStr

(***************************************************************************)
(* The body of main()'s loop: the output record of one input record.       *)
(***************************************************************************)
\* (desc[:160] + "…") if len(desc) > 160 else desc: the description it is
\* cut from, the number of its characters kept and whether "…" follows
ValuePreview(desc) ==
    IF HtmlLen(desc) > 160
    THEN [of |-> desc, chars |-> 160, ellipsis |-> TRUE]
    ELSE [of |-> desc, chars |-> HtmlLen(desc), ellipsis |-> FALSE]

\* or in place of and
Overall_Or(title_report, desc_report) == title_report.pass \/ desc_report.pass

\* bool(title_report["pass"] and desc_report["pass"])
Overall(title_report, desc_report) == title_report.pass /\ desc_report.pass

ValidateRow(row, bmap) ==
    LET input_id == OrEmpty(row.input_id)
        brand == Get(bmap, input_id)
        title == OrEmpty(row.ebay_title)
        desc == OrEmptyHtml(row.ebay_description_html)
        title_report == validate_title(title, brand)
        desc_report == validate_description(desc)
    IN  [input_id |-> input_id,
         model |-> row.model,
         ok_original |-> row.ok,
         overall_pass |-> Overall(title_report, desc_report),
         title |-> [value |-> title] @@ title_report,
         description |->
            [length |-> HtmlLen(desc), value_preview |-> ValuePreview(desc)] @@ desc_report,
         tokens |-> [input_tokens |-> row.input_tokens,
                     output_tokens |-> row.output_tokens,
                     total_tokens |-> row.total_tokens]]

(***************************************************************************)
(* main().  With --output given only out_path is assigned; brand_map and   *)
(* raw are assigned in the branch taken without it.                        *)
(***************************************************************************)
\* args.output given: brand_map and raw stay unbound
StartOutputGiven ==
    /\ pc = "start"
    /\ args.output
    /\ pc' = "loop"
    /\ UNCHANGED <<args, input_json, locals, brand_map, raw, validated, idx, out_file, error>>

\* args.output absent, the input is a JSON list
StartDefault ==
    /\ pc = "start"
    /\ ~args.output
    /\ input_json.kind = "list"
    /\ brand_map' = IF args.products.kind # "none" THEN load_brand_map(args.products) ELSE <<>>
    /\ raw' = input_json.rows
    /\ locals' = {"brand_map", "raw"}
    /\ pc' = "loop"
    /\ UNCHANGED <<args, input_json, validated, idx, out_file, error>>

\* args.output absent, the input is not a JSON list: SystemExit
StartNotAList ==
    /\ pc = "start"
    /\ ~args.output
    /\ input_json.kind # "list"
    /\ brand_map' = IF args.products.kind # "none" THEN load_brand_map(args.products) ELSE <<>>
    /\ locals' = {"brand_map"}
    /\ pc' = "crashed"
    /\ error' = "SystemExit"
    /\ UNCHANGED <<args, input_json, raw, validated, idx, out_file>>

\* for row in raw, raw unbound: UnboundLocalError
LoopUnbound ==
    /\ pc = "loop"
    /\ "raw" \notin locals
    /\ pc' = "crashed"
    /\ error' = "UnboundLocalError"
    /\ UNCHANGED <<args, input_json, locals, brand_map, raw, validated, idx, out_file>>

\* one iteration over a record that is a JSON object
LoopRow ==
    /\ pc = "loop"
    /\ "raw" \in locals
    /\ idx < Len(raw)
    /\ raw[idx + 1].kind = "dict"
    /\ validated' = Append(validated, ValidateRow(raw[idx + 1], brand_map))
    /\ idx' = idx + 1
    /\ UNCHANGED <<pc, args, input_json, locals, brand_map, raw, out_file, error>>

\* one iteration over a record that is no JSON object: row.get raises
LoopRowNotADict ==
    /\ pc = "loop"
    /\ "raw" \in locals
    /\ idx < Len(raw)
    /\ raw[idx + 1].kind # "dict"
    /\ pc' = "crashed"
    /\ error' = "AttributeError"
    /\ UNCHANGED <<args, input_json, locals, brand_map, raw, validated, idx, out_file>>

\* the loop is over: out_path.write_text(json.dumps(validated))
WriteOutput ==
    /\ pc = "loop"
    /\ "raw" \in locals
    /\ idx = Len(raw)
    /\ out_file' = [written |-> TRUE, rows |-> validated]
    /\ pc' = "done"
    /\ UNCHANGED <<args, input_json, locals, brand_map, raw, validated, idx, error>>

Next ==
    \/ StartOutputGiven
    \/ StartDefault
    \/ StartNotAList
    \/ LoopUnbound
    \/ LoopRow
    \/ LoopRowNotADict
    \/ WriteOutput

(***************************************************************************)
(* Inputs.                                                                 *)
(***************************************************************************)
Rep(c, n) == [k \in 1..n |-> c]

Id1 == <<49>>

Id2 == <<50>>

Acme == <<65, 99, 109, 101>>

\* "Acme Steel Water Bottle 750ml Blue"
GoodTitle ==
    << 65, 99, 109, 101, 32, 83, 116, 101, 101, 108, 32, 87, 97, 116, 101, 114, 32,
       66, 111, 116, 116, 108, 101, 32, 55, 53, 48, 109, 108, 32, 66, 108, 117, 101 >>

\* "FREE gift"
SpamTitle == <<70, 82, 69, 69, 32, 103, 105, 102, 116>>

\* the pieces titles are built from: runs of a letter, a space, a line
\* break, an emoji, the brand, a spam word in mixed case
TitlePieces ==
    { <<>>, Rep(97, 1), Rep(97, 9), Rep(97, 12), Rep(97, 80), Rep(65, 9),
      <<32>>, <<10>>, <<128512>>, Acme, <<70, 114, 69, 101>> }

RECURSIVE Joined(_, _)
Joined(pieces, n) ==
    IF n = 0 THEN {<<>>}
    ELSE {p \o t : p \in pieces, t \in Joined(pieces, n - 1)}

Titles == Joined(TitlePieces, MaxPieces) \cup {NoneStr}

Item3 == <<"<li>", "w5", "</li>", "<li>", "w5", "</li>", "<li>", "w5", "</li>">>

\* the pieces descriptions are built from
DescPieces ==
    { <<>>, <<" ">>, <<"w5">>, <<"w40">>, <<"w4000">>, <<"http://x.co">>,
      <<"<p>">>, <<"</p>">>, <<"<script>">>, <<"<SCRIPT>">>, <<"</script>">>,
      <<"<iframe>">>, <<"<body>">>,
      <<"<ul>">> \o Item3 \o <<"</ul>">>, Item3 \o Item3 }

Descs == Joined(DescPieces, MaxChunks) \cup {NoneHtml}

LeadDesc == <<"<p>", "w40", "</p>", "<ul>">> \o Item3 \o <<"</ul>">>

ScriptDesc == <<"<ul>">> \o Item3 \o <<"</ul>", "<script>", "w40", "</script>">>

Row(id, title, desc) ==
    [kind |-> "dict", input_id |-> id, model |-> "gpt", ok |-> TRUE,
     ebay_title |-> title, ebay_description_html |-> desc,
     input_tokens |-> 5, output_tokens |-> 7, total_tokens |-> 12]

\* a record that is no JSON object, such as a JSON string
NotADict == [kind |-> "str"]

Item(id, sku, handle, brand, vendor) ==
    [id |-> id, sku |-> sku, handle |-> handle, brand |-> brand, vendor |-> vendor]

\* a products list giving record "1" the brand "Acme"
AcmeProducts ==
    [kind |-> "list", items |-> <<Item(Id1, NoneStr, NoneStr, Acme, NoneStr)>>]

ProductsFiles ==
    { [kind |-> "none"],
      [kind |-> "other"],
      AcmeProducts,
      [kind |-> "dict_items",
       items |-> << Item(NoneStr, Id2, NoneStr, <<>>, Acme),
                    Item(Id1, NoneStr, NoneStr, NoneStr, NoneStr) >>] }

SampleRows ==
    { Row(Id1, GoodTitle, LeadDesc), Row(Id2, GoodTitle, ScriptDesc),
      Row(Id1, SpamTitle, NoneHtml), Row(NoneStr, NoneStr, LeadDesc),
      Row(Id2, <<>>, <<>>), NotADict }

BroadRows ==
    {Row(Id1, t, LeadDesc) : t \in Titles}
        \cup {Row(Id1, GoodTitle, d) : d \in Descs}
        \cup {Row(Id2, NoneStr, NoneHtml), NotADict}

RECURSIVE Batches(_, _)
Batches(rows, n) ==
    IF n = 0 THEN {<<>>}
    ELSE Batches(rows, n - 1) \cup {Append(b, r) : b \in Batches(rows, n - 1), r \in rows}

InitWith(inputs, products) ==
    /\ pc = "start"
    /\ args \in [output : BOOLEAN, products : products]
    /\ input_json \in inputs
    /\ locals = {}
    /\ brand_map = <<>>
    /\ raw = <<>>
    /\ validated = <<>>
    /\ idx = 0
    /\ out_file = [written |-> FALSE, rows |-> <<>>]
    /\ error = ""

NotAList == [kind |-> "object", rows |-> <<>>]

\* a batch of up to MaxBatch records
Init ==
    InitWith({[kind |-> "list", rows |-> b] : b \in Batches(SampleRows, MaxBatch)}
                \cup {NotAList},
             ProductsFiles)

Spec == Init /\ [][Next]_vars

\* a batch of one record, its title or its description drawn from all
\* those built of up to MaxPieces or MaxChunks pieces
InitRecord ==
    InitWith({[kind |-> "list", rows |-> <<r>>] : r \in BroadRows} \cup {NotAList},
             {[kind |-> "none"], AcmeProducts})

SpecRecord == InitRecord /\ [][Next]_vars

(***************************************************************************)
(* Properties.  Record k of the output so far is validated[k], made from   *)
(* raw[k] with the brand the lookup gives its identifier.                  *)
(***************************************************************************)
Range(seq) == {seq[n] : n \in 1..Len(seq)}

Recs == 1..Len(validated)

TitleOf(k) == OrEmpty(raw[k].ebay_title)

DescOf(k) == OrEmptyHtml(raw[k].ebay_description_html)

BrandOf(k) == Get(brand_map, OrEmpty(raw[k].input_id))

FalseChecks(report) == {c \in DOMAIN report.checks : report.checks[c] = "false"}

\* the violations are exactly the checks whose outcome is false, each once
ViolationsAreFalseChecks(report) ==
    /\ Range(report.violations) = FalseChecks(report)
    /\ Len(report.violations) = Cardinality(FalseChecks(report))
    /\ \A c \in DOMAIN report.checks :
          report.checks[c] = NOT_EVALUATED => c \notin Range(report.violations)

\* C1 as stated: in every title report and every description report, also
\* those of an absent or empty title or description, the violations are
\* exactly the checks whose outcome is false.
C1_AsStated ==
    \A k \in Recs :
        /\ ViolationsAreFalseChecks(validated[k].title)
        /\ ViolationsAreFalseChecks(validated[k].description)

\* C1, amended: in the report of every non-empty title and of every
\* non-empty description the violations are exactly the checks whose
\* outcome is false, and a check that is not_evaluated is never among them.
C1_ViolationsMatchChecks ==
    \A k \in Recs :
        /\ Truthy(TitleOf(k)) => ViolationsAreFalseChecks(validated[k].title)
        /\ TruthyHtml(DescOf(k)) => ViolationsAreFalseChecks(validated[k].description)

\* a non-empty title with a failed check and the brand check not evaluated
C1_Witness ==
    \E k \in Recs :
        /\ Truthy(TitleOf(k))
        /\ validated[k].title.checks["starts_with_brand"] = NOT_EVALUATED
        /\ validated[k].title.violations = <<"length_le_80", "one_line">>
        /\ TruthyHtml(DescOf(k))
        /\ validated[k].description.violations # <<>>

\* what C2 asks of a title: trimmed length in [10,80], one line, no double
\* space, no emoji, no spam phrase, not all-caps
C2_Premise(t) ==
    /\ Len(Strip(t)) >= 10
    /\ Len(Strip(t)) <= 80
    /\ ~Contains(t, <<10>>)
    /\ ~Contains(t, <<13>>)
    /\ ~Contains(t, <<32, 32>>)
    /\ ~EMOJI_RE_search(t)
    /\ ~SPAM_RE_search(t)
    /\ ~is_all_caps(t)

\* C2 as stated: every title that meets the premise passes, whatever the
\* brand hint.
C2_AsStated ==
    \A k \in Recs : C2_Premise(TitleOf(k)) => validated[k].title.pass

\* C2, amended: a title that meets the premise and is at most 80 characters
\* long untrimmed passes when no brand hint is given or the brand check
\* holds for it.
C2_CleanTitlePasses ==
    \A k \in Recs :
        ( /\ C2_Premise(TitleOf(k))
          /\ Len(TitleOf(k)) <= 80
          /\ ~Truthy(BrandOf(k)) \/ BrandCheck(TitleOf(k), BrandOf(k)) )
        => validated[k].title.pass

\* a title that holds the brand early, not at its start, and passes
C2_Witness ==
    \E k \in Recs :
        /\ C2_Premise(TitleOf(k))
        /\ Truthy(BrandOf(k))
        /\ ~StartsWith(Lower(TitleOf(k)), Lower(BrandOf(k)))
        /\ validated[k].title.pass

\* the input is a JSON list of well-formed records
WellFormedBatch ==
    /\ input_json.kind = "list"
    /\ \A n \in 1..Len(input_json.rows) : input_json.rows[n].kind = "dict"

Ended == pc \in {"done", "crashed"}

\* the output holds one record per input record, in the input's order
OneRecordPerInput ==
    /\ out_file.written
    /\ Len(out_file.rows) = Len(input_json.rows)
    /\ \A n \in 1..Len(input_json.rows) :
          input_json.rows[n].kind = "dict" =>
            /\ out_file.rows[n].input_id = OrEmpty(input_json.rows[n].input_id)
            /\ out_file.rows[n].title.value = OrEmpty(input_json.rows[n].ebay_title)

\* C3: a run over a JSON list of well-formed records, with or without
\* --output and --products, ends with exactly one output record per input
\* record, in the input's order.
C3_OneOutputPerInput == (Ended /\ WellFormedBatch) => OneRecordPerInput

\* C4: when a record of the batch is no key/value record, the run (here
\* without --output) still ends with a report for every other record and
\* an individual failure for the offending one, not with an exception.
C4_BadRecordDoesNotAbort ==
    ( /\ Ended
      /\ ~args.output
      /\ input_json.kind = "list"
      /\ \E n \in 1..Len(input_json.rows) : input_json.rows[n].kind # "dict"
      /\ \E n \in 1..Len(input_json.rows) : input_json.rows[n].kind = "dict" )
    => (error = "" /\ OneRecordPerInput)

\* C5: a record whose title is absent or empty gets a title report with
\* pass false and the one violation missing_title; one whose description is
\* absent or empty gets pass false and the one violation
\* missing_description; validating such a record raises nothing.
C5_MissingField ==
    /\ \A k \in Recs :
        /\ ~Truthy(raw[k].ebay_title) =>
              /\ validated[k].title.pass = FALSE
              /\ validated[k].title.violations = <<"missing_title">>
        /\ ~TruthyHtml(raw[k].ebay_description_html) =>
              /\ validated[k].description.pass = FALSE
              /\ validated[k].description.violations = <<"missing_description">>
    /\ (~args.output /\ WellFormedBatch) => error = ""

\* a written record made from an absent title and an absent description
C5_Witness ==
    /\ pc = "done"
    /\ error = ""
    /\ \E k \in 1..Len(out_file.rows) :
        /\ raw[k].ebay_title = NoneStr
        /\ raw[k].ebay_description_html = NoneHtml
        /\ out_file.rows[k].title.violations = <<"missing_title">>
        /\ out_file.rows[k].description.violations = <<"missing_description">>

\* C6: overall_pass of an output record is true exactly when its title
\* report passes and its description report passes.
C6_OverallPass ==
    \A k \in Recs :
        validated[k].overall_pass <=>
            (validated[k].title.pass /\ validated[k].description.pass)

\* a record whose title passes and whose description fails
C6_Witness ==
    \E k \in Recs :
        /\ validated[k].title.pass
        /\ ~validated[k].description.pass
        /\ ~validated[k].overall_pass

\* C7: a non-empty title passes exactly when every check is true or
\* not_evaluated; with no brand hint starts_with_brand is not_evaluated.
C7_TitlePass ==
    \A k \in Recs :
        Truthy(TitleOf(k)) =>
            /\ validated[k].title.pass <=>
                  \A c \in DOMAIN validated[k].title.checks :
                      validated[k].title.checks[c] \in {"true", NOT_EVALUATED}
            /\ ~Truthy(BrandOf(k)) =>
                  validated[k].title.checks["starts_with_brand"] = NOT_EVALUATED

\* a title that passes with the brand check not evaluated
C7_Witness ==
    \E k \in Recs :
        /\ Truthy(TitleOf(k))
        /\ ~Truthy(BrandOf(k))
        /\ validated[k].title.checks["starts_with_brand"] = NOT_EVALUATED
        /\ validated[k].title.pass

\* C8: two records of a batch that are equal get equal reports, wherever
\* they stand in the batch and whatever was validated between them.
C8_SameRecordSameReport ==
    \A i \in Recs : \A j \in Recs : raw[i] = raw[j] => validated[i] = validated[j]

\* the same record validated first and third, another one in between
C8_Witness ==
    /\ Len(validated) = 3
    /\ raw[1] = raw[3]
    /\ raw[1] # raw[2]
    /\ validated[1] # validated[2]
    /\ validated[1].title.violations # <<>>

\* the names of the tags the parser finds in record k's description
TagsOf(k) == TagSet(BeautifulSoup(HtmlStrip(DescOf(k))))

\* C9: a description with a tag of the disallowed set anywhere among its
\* tags has no_disallowed_tags false, names the tag in
\* found_disallowed_tags, and its record's overall_pass is false.
C9_DisallowedTag ==
    \A k \in Recs : \A name \in DISALLOWED_TAGS :
        name \in TagsOf(k) =>
            /\ validated[k].description.checks["no_disallowed_tags"] = "false"
            /\ name \in Range(validated[k].description.found_disallowed_tags)
            /\ validated[k].overall_pass = FALSE

\* a description whose second tag is a script, reported as found
C9_Witness ==
    \E k \in Recs :
        /\ TruthyHtml(DescOf(k))
        /\ Len(DescOf(k)) > 1
        /\ Head(DescOf(k)) = "<p>"
        /\ "script" \in TagsOf(k)
        /\ validated[k].description.found_disallowed_tags = <<"script">>
        /\ validated[k].title.pass

DiagnosticFields ==
    {"found_disallowed_tags", "found_non_whitelisted_tags", "lead_paragraph_length",
     "bullet_count"}

\* C10: the description report of every output record, also that of an
\* absent or empty description, carries the four diagnostic fields.
C10_DiagnosticFields ==
    \A k \in Recs : DiagnosticFields \subseteq DOMAIN validated[k].description

\* the brand occurs in tb beginning at one of its first n characters
BeginsWithinFirst(tb, br, n) ==
    \E i \in 1..n : i + Len(br) - 1 <= Len(tb) /\ SubSeq(tb, i, i + Len(br) - 1) = br

\* C11: for a non-empty title starts_with_brand is not_evaluated when no
\* brand hint is given; otherwise it is true exactly when the lower-cased,
\* left-trimmed title starts with the lower-cased brand or the brand
\* appears within the first 12 characters of the title, and false otherwise.
C11_StartsWithBrand ==
    \A k \in Recs :
        Truthy(TitleOf(k)) =>
            validated[k].title.checks["starts_with_brand"] =
                IF ~Truthy(BrandOf(k)) THEN NOT_EVALUATED
                ELSE LET tb == LStrip(Lower(TitleOf(k)))
                         br == Lower(BrandOf(k))
                     IN  Outcome(StartsWith(tb, br) \/ BeginsWithinFirst(tb, br, 12))

\* C12: lead_paragraph_ok and only_allowed_tags are never both true; a
\* description whose tags are all on the allow-list has no lead block
\* (lead_paragraph_length is 0), and one with a lead block of length >= 40
\* has a non-whitelisted tag reported.
C12_LeadExcludesAllowedOnly ==
    \A k \in Recs :
        LET d == validated[k].description
        IN  /\ ~(d.checks["lead_paragraph_ok"] = "true" /\ d.checks["only_allowed_tags"] = "true")
            /\ TruthyHtml(DescOf(k)) =>
                /\ d.checks["only_allowed_tags"] = "true" => d.lead_paragraph_length = 0
                /\ d.lead_paragraph_length >= 40 =>
                      /\ d.found_non_whitelisted_tags # <<>>
                      /\ d.checks["only_allowed_tags"] = "false"

\* a description with a lead block of 40 characters, whose only
\* non-whitelisted tag is the lead-paragraph tag itself
C12_Witness ==
    \E k \in Recs :
        /\ TruthyHtml(DescOf(k))
        /\ validated[k].description.checks["lead_paragraph_ok"] = "true"
        /\ validated[k].description.lead_paragraph_length = 40
        /\ validated[k].description.found_non_whitelisted_tags = <<"p">>
        /\ validated[k].description.bullet_count = 0

\* C13: no description passes, so overall_pass is false in every output
\* record, whatever its title, brand and description.
C13_NothingPasses ==
    \A k \in Recs :
        /\ validated[k].description.pass = FALSE
        /\ validated[k].overall_pass = FALSE

\* a record whose title passes and whose description fails only_allowed_tags
\* alone, every other description check being true
C13_Witness ==
    \E k \in Recs :
        /\ validated[k].title.pass
        /\ validated[k].title.checks["starts_with_brand"] = "true"
        /\ validated[k].description.violations = <<"only_allowed_tags">>
        /\ validated[k].description.pass = FALSE
        /\ validated[k].overall_pass = FALSE

====
